---- MODULE Spec2Model ----
(***************************************************************************)
(* Model of MCPClient (client.py): construction, connect_to_server, the    *)
(* interactive chat_loop, the tool-call mediation of process_query, and    *)
(* main with its cleanup.                                                  *)
(*                                                                         *)
(* Text is a sequence of tokens (a token is a character or an opaque       *)
(* fragment); the empty string is the empty sequence.  A step of the model *)
(* runs the code from one suspension point (input(), an await) to the      *)
(* next.  The collaborators (session.list_tools, ollama.chat,              *)
(* session.call_tool) answer nondeterministically: they return a value or  *)
(* raise an Exception.  `log` records what was asked of them in the        *)
(* current iteration of the loop, as a mock records its calls.             *)
(***************************************************************************)
EXTENDS Integers, Sequences, FiniteSets, TLC

VARIABLES
    session,         \* self.session: "None" or "ClientSession"
    loop,            \* chat_loop: "awaiting" (at input()), "processing", "exited"
    pc,              \* process_query: "idle", "list_tools", "chat", "call_tool"
    turns,           \* number of input() calls made by chat_loop
    line,            \* what the last input() returned (before strip)
    query,           \* query = input(...).strip()
    content,         \* message.get("content", "")
    tool_calls,      \* message.get("tool_calls", [])
    tool_responses,  \* the list tool_responses
    log,             \* requests made to the session and to ollama in this iteration
    response,        \* how process_query ended in this iteration
    printed,         \* what chat_loop printed in this iteration
    read,            \* how the last input() ended: "none", "returned", "raised"
    available_tools, \* response.tools, each as its model_dump(), until the model is asked
    tools,           \* the list tools built for ollama.chat, until it has answered
    params,          \* the api_key and token parameters of MCPClient(...)
    env,             \* os.environ: MCP_API_KEY, MCP_TOKEN, MCP_BEARER_TOKEN
    self,            \* self.api_key, self.token, self.auth_type, self.auth_value
    cpc,             \* "new", "constructed", "connecting", "connected", "failed"
    script,          \* the file at server_script_path: does it exist, its suffix
    stdout,          \* what connect_to_server has printed, message by message
    spawned,         \* stdio_client was entered: the server process was started
    connect_error,   \* the fault connect_to_server raised, if it raised
    escaped,         \* the fault that left chat_loop uncaught, if one did
    cleanups         \* number of calls of client.cleanup()

\* the state of main around chat_loop
mainVars == <<escaped, cleanups>>

\* the state of construction and connection, and of main
startVars == <<params, env, self, cpc, script, stdout, spawned, connect_error, mainVars>>

vars == <<session, loop, pc, turns, line, query, content, tool_calls,
          tool_responses, log, response, printed, read, available_tools, tools,
          startVars>>

(***************************************************************************)
(* Bounds                                                                  *)
(***************************************************************************)
MaxCalls == 2
MaxTurns == 2
MaxTools == 2

(***************************************************************************)
(* Text helpers                                                            *)
(***************************************************************************)
Whitespace == {" ", "\t"}

LowerChar(c) ==
    CASE c = "Q" -> "q"
      [] c = "U" -> "u"
      [] c = "I" -> "i"
      [] c = "T" -> "t"
      [] OTHER -> c

\* str.lower()
Lower(s) == [k \in 1..Len(s) |-> LowerChar(s[k])]

\* str.strip(): drop the leading and the trailing whitespace
RECURSIVE LStrip(_)
LStrip(s) == IF s # <<>> /\ s[1] \in Whitespace THEN LStrip(Tail(s)) ELSE s

RECURSIVE RStrip(_)
RStrip(s) ==
    IF s # <<>> /\ s[Len(s)] \in Whitespace
    THEN RStrip(SubSeq(s, 1, Len(s) - 1))
    ELSE s

Strip(s) == RStrip(LStrip(s))

\* sep.join(parts)
RECURSIVE Join(_, _)
Join(sep, parts) ==
    IF parts = <<>> THEN <<>>
    ELSE IF Len(parts) = 1 THEN parts[1]
    ELSE parts[1] \o sep \o Join(sep, Tail(parts))

NL == <<"\n">>

(***************************************************************************)
(* Values exchanged with the model and the tool provider                   *)
(***************************************************************************)
\* An optional value: None (or a key that a dict lacks), or Some(s)
None == [none |-> TRUE, s |-> <<>>]
Some(s) == [none |-> FALSE, s |-> s]

\* dict.get(key, default) on a field that is present or missing
Get(field, default) == IF field.none THEN default ELSE field.s

\* lines 124-131: function_def for one tool_dict
FunctionDef(tool_dict) ==
    [type |-> "function",
     function |-> [name |-> Get(tool_dict.name, <<>>),
                   description |-> Get(tool_dict.description, <<>>),
                   parameters |-> Get(tool_dict.inputSchema, <<>>)]]

\* a descriptor that carries a name
HasName(tool_dict) == ~tool_dict.name.none

\* mutant: descriptors without a name are left out of the list
FunctionDefs_SkipNameless(descriptors) ==
    LET named == SelectSeq(descriptors, HasName)
    IN  [k \in 1..Len(named) |-> FunctionDef(named[k])]

\* lines 120-132: the list tools
FunctionDefs(descriptors) ==
    [k \in 1..Len(descriptors) |-> FunctionDef(descriptors[k])]

\* line 142: tools if tools else None
ToolsArgument(list) == IF list # <<>> THEN Some(list) ELSE None

\* A value of function.get("arguments", {}): type is the Python type and body
\* its payload, the lexical tokens of a str or the "key": value items of a dict.
Dict(items) == [type |-> "dict", body |-> items]
Text(tokens) == [type |-> "str", body |-> tokens]
List(items) == [type |-> "list", body |-> items]
Scalar(tok) == [type |-> "scalar", body |-> <<tok>>]

EmptyDict == Dict(<<>>)

PairTokens == {"\"employee_id\": \"E001\"", "\"param\": \"value\""}
ScalarTokens == {"1", "null"}

\* items separated by "," tokens, each item drawn from the set T
IsItemList(m, T) ==
    \/ m = <<>>
    \/ /\ Len(m) % 2 = 1
       /\ \A k \in 1..Len(m) : IF k % 2 = 1 THEN m[k] \in T ELSE m[k] = ","

Items(m) == [k \in 1..((Len(m) + 1) \div 2) |-> m[2 * k - 1]]

Inner(s) == SubSeq(s, 2, Len(s) - 1)

\* json.loads(s): ok is FALSE where it raises json.JSONDecodeError
JsonLoads(s) ==
    IF Len(s) >= 2 /\ s[1] = "{" /\ s[Len(s)] = "}" /\ IsItemList(Inner(s), PairTokens)
    THEN [ok |-> TRUE, value |-> Dict(Items(Inner(s)))]
    ELSE IF Len(s) >= 2 /\ s[1] = "[" /\ s[Len(s)] = "]" /\ IsItemList(Inner(s), ScalarTokens)
    THEN [ok |-> TRUE, value |-> List(Items(Inner(s)))]
    ELSE IF Len(s) = 1 /\ s[1] \in ScalarTokens
    THEN [ok |-> TRUE, value |-> Scalar(s[1])]
    ELSE [ok |-> FALSE, value |-> EmptyDict]

\* mutant: the undecodable text itself is passed on as the arguments
FunctionArgs_KeepRaw(raw) ==
    IF raw.type = "str"
    THEN IF JsonLoads(raw.body).ok THEN JsonLoads(raw.body).value ELSE raw
    ELSE IF raw.type = "dict" THEN raw ELSE EmptyDict

\* lines 159-166: function_args from function_args_raw
FunctionArgs(raw) ==
    IF raw.type = "str"
    THEN IF JsonLoads(raw.body).ok THEN JsonLoads(raw.body).value ELSE EmptyDict
    ELSE IF raw.type = "dict" THEN raw ELSE EmptyDict

\* A tool result: hasContent is hasattr(tool_result, 'content'), isSeq is
\* hasattr(content, '__iter__'), items the content elements and repr what
\* str() gives for the part that is stringified.
Item(t) == [hasText |-> TRUE, text |-> t]
NoTextItem == [hasText |-> FALSE, text |-> <<>>]
ToolResult(items, repr) ==
    [hasContent |-> TRUE, isSeq |-> TRUE, items |-> items, repr |-> repr]
NoResult == [hasContent |-> FALSE, isSeq |-> FALSE, items |-> <<>>, repr |-> <<>>]

AttributeErrorText == <<"'ImageContent' object has no attribute 'text'">>

\* lines 172-175: result_text; ok is FALSE where the expression raises
ResultText(r) ==
    IF r.hasContent
    THEN IF r.isSeq /\ Len(r.items) > 0
         THEN IF r.items[1].hasText
              THEN [ok |-> TRUE, text |-> r.items[1].text]
              ELSE [ok |-> FALSE, text |-> AttributeErrorText]
         ELSE [ok |-> TRUE, text |-> r.repr]
    ELSE [ok |-> TRUE, text |-> r.repr]

\* line 176
ResultLine(name, text) == <<"Tool '">> \o name \o <<"' result: ">> \o text

\* line 178
ErrorLine(name, msg) == <<"Error calling tool '">> \o name \o <<"': ">> \o msg

\* mutant: the content is joined in even when it is empty
Compose_AlwaysContent(c, calls, responses) ==
    IF calls # <<>>
    THEN Join(NL, <<c>> \o responses)
    ELSE IF c # <<>> THEN c ELSE <<>>

\* mutant: without tool calls the empty string is returned, not the content
Compose_DropContent(c, calls, responses) ==
    IF calls # <<>>
    THEN IF c # <<>> THEN Join(NL, <<c>> \o responses) ELSE Join(NL, responses)
    ELSE <<>>

\* lines 151-183: the text process_query returns
Compose(c, calls, responses) ==
    IF calls # <<>>
    THEN IF c # <<>> THEN Join(NL, <<c>> \o responses) ELSE Join(NL, responses)
    ELSE IF c # <<>> THEN c ELSE <<>>

(***************************************************************************)
(* Inputs: what the user types, what the model replies, what the tool      *)
(* provider answers                                                        *)
(***************************************************************************)
QuitToken == <<"q", "u", "i", "t">>

Lines ==
    { <<"q", "u", "i", "t">>,
      <<"Q", "U", "I", "T">>,
      <<" ", "Q", "u", "i", "t", "\t">>,
      <<" ", "q", "u", "i", "t", "s">>,
      <<" ", " ">> }

Contents == { <<>>, <<"Checking leave balance...">> }

ToolCalls ==
    { [name |-> <<"get_leave_balance">>,
       arguments |-> Dict(<<"\"employee_id\": \"E001\"">>)],
      [name |-> <<"test_tool">>,
       arguments |-> Text(<<"{", "\"param\": \"value\"", "}">>)],
      [name |-> <<"test_tool">>,
       arguments |-> Text(<<"{", "\"param\": \"value\"">>)],
      [name |-> <<"failing_tool">>,
       arguments |-> Dict(<<>>)] }

ToolCallLists ==
    UNION { [1..n -> ToolCalls] : n \in 0..MaxCalls }

\* tool.model_dump() of the tools a server may list; a schema is the
\* sequence of its entries and {} the empty sequence
Descriptors ==
    { [name |-> Some(<<"get_leave_balance">>),
       description |-> Some(<<"Get leave balance">>),
       inputSchema |-> Some(<<"\"type\": \"object\"", "\"properties\": {\"employee_id\"}">>)],
      [name |-> Some(<<"test_tool">>),
       description |-> None,
       inputSchema |-> Some(<<>>)],
      [name |-> Some(<<"failing_tool">>),
       description |-> Some(<<"Failing tool">>),
       inputSchema |-> None],
      [name |-> None,
       description |-> None,
       inputSchema |-> None] }

ToolLists ==
    UNION { [1..n -> Descriptors] : n \in 0..MaxTools }

ToolResults ==
    { ToolResult(<<Item(<<"E001 has 18 leave days remaining.">>)>>, <<"[TextContent]">>),
      ToolResult(<<NoTextItem>>, <<"[ImageContent]">>) }

Faults == { <<"Tool execution failed">>, <<"Connection closed">> }

SessionError == <<"Session is not initialized. Call connect_to_server() first.">>

(***************************************************************************)
(* The record of the requests made to the collaborators                    *)
(***************************************************************************)
Request(op, name, args) ==
    [op |-> op, name |-> name, args |-> args,
     out |-> "pending", msg |-> <<>>, result |-> NoResult]

\* the last request of the log answered
Answered(l, out, msg, result) ==
    [l EXCEPT ![Len(l)].out = out, ![Len(l)].msg = msg, ![Len(l)].result = result]

NoResponse == [status |-> "none", text |-> <<>>]

\* no fault has left chat_loop
NoEscape == [kind |-> "none", text |-> <<>>]

\* faults that chat_loop does not catch: an Exception raised by a print of
\* the loop, which main's except clause catches, and a KeyboardInterrupt at
\* input(), which it does not
Escapes ==
    { [kind |-> "Exception", text |-> <<"Broken pipe">>],
      [kind |-> "BaseException", text |-> <<"KeyboardInterrupt">>] }

EOFText == <<"EOF when reading a line">>

(***************************************************************************)
(* MCPClient.__init__                                                      *)
(***************************************************************************)
\* bool(v) of an optional string: None and "" are false
Truthy(v) == ~v.none /\ v.s # <<>>

\* a or b
Or(a, b) == IF Truthy(a) THEN a ELSE b

\* mutant: the environment is consulted before the explicit parameters
Construct_EnvFirst(p, e) ==
    LET api_key == Or(e.MCP_API_KEY, p.api_key)
        token == Or(Or(e.MCP_TOKEN, e.MCP_BEARER_TOKEN), p.token)
    IN  [api_key |-> api_key,
         token |-> token,
         auth_type |-> IF Truthy(api_key) THEN Some(<<"api_key">>)
                       ELSE IF Truthy(token) THEN Some(<<"bearer">>) ELSE None,
         auth_value |-> IF Truthy(api_key) THEN api_key
                        ELSE IF Truthy(token) THEN token ELSE None]

\* lines 26-38: the credentials of a client built with parameters p under
\* the environment e
Construct(p, e) ==
    LET api_key == Or(p.api_key, e.MCP_API_KEY)
        token == Or(Or(p.token, e.MCP_TOKEN), e.MCP_BEARER_TOKEN)
    IN  [api_key |-> api_key,
         token |-> token,
         auth_type |-> IF Truthy(api_key) THEN Some(<<"api_key">>)
                       ELSE IF Truthy(token) THEN Some(<<"bearer">>) ELSE None,
         auth_value |-> IF Truthy(api_key) THEN api_key
                        ELSE IF Truthy(token) THEN token ELSE None]

\* a credential source: not given, given empty, given with its own value
Source(value) == {None, Some(<<>>), Some(<<value>>)}

Parameters == [api_key : Source("explicit-key"), token : Source("explicit-token")]

Environments ==
    [MCP_API_KEY : Source("env-key"),
     MCP_TOKEN : Source("env-token"),
     MCP_BEARER_TOKEN : Source("env-bearer")]

NoParameters == [api_key |-> None, token |-> None]
NoEnvironment == [MCP_API_KEY |-> None, MCP_TOKEN |-> None, MCP_BEARER_TOKEN |-> None]
Unconstructed == [api_key |-> None, token |-> None, auth_type |-> None, auth_value |-> None]

(***************************************************************************)
(* connect_to_server                                                       *)
(***************************************************************************)
Scripts == [exists : BOOLEAN, suffix : {".py", ".js", ".txt"}]

NotFoundError == <<"Server script not found: ", "server_script_path">>
SuffixError == <<"Server script must be a .py or .js file">>

\* lines 63-71: the message about the authentication in use
AuthMessage(auth_type) ==
    IF auth_type = Some(<<"api_key">>) THEN "Using API key authentication"
    ELSE IF auth_type = Some(<<"bearer">>) THEN "Using Bearer token authentication"
    ELSE "No authentication configured - connecting without authentication"

\* lines 63-81: what is printed before the server is started
StartOutput(auth_type) == <<AuthMessage(auth_type), "Connecting to MCP server">>

\* lines 88-100: what is printed while the session is set up
SetupOutput(auth_type) ==
    <<"Initializing session...", "Fetching available tools...",
      "Session initialized successfully">>
        \o (IF auth_type # None THEN <<"Authentication verified">> ELSE <<>>)
        \o <<"Connected to server with tools">>

\* the awaits of lines 84-95, in order
Stages == <<"stdio_client", "ClientSession", "initialize", "list_tools">>

\* what was printed when the await of stage k raised
FaultOutput(k) ==
    (IF k >= 3 THEN <<"Initializing session...">> ELSE <<>>)
        \o (IF k >= 4 THEN <<"Fetching available tools...">> ELSE <<>>)
        \o <<"Error connecting to server">>

\* line 102: "auth" in str(auth_error).lower() or "unauthorized" in ...
MentionsAuth(m) == \E k \in 1..Len(m) : m[k] \in {"auth", "Unauthorized", "Authentication"}

ConnectFaults == { <<"Connection closed">>, <<"Unauthorized", ": bad key">> }

\* lines 101-104: the fault that leaves connect_to_server when stage k raised m
ConnectError(k, m) ==
    IF k = 4 /\ MentionsAuth(m)
    THEN <<"Authentication failed: ">> \o m \o <<". Please check your credentials.">>
    ELSE m

\* mutant: the suffix of the script is not looked at
Acceptable_AnySuffix(f) == f.exists

\* lines 51-57: the script exists and is a .py or .js file
Acceptable(f) == f.exists /\ f.suffix \in {".py", ".js"}

\* lines 52 and 57: the fault raised for a script that is not acceptable
RejectionError(f) == IF ~f.exists THEN NotFoundError ELSE SuffixError

(***************************************************************************)
(* State                                                                   *)
(***************************************************************************)
TypeOK ==
    /\ session \in {"None", "ClientSession"}
    /\ loop \in {"awaiting", "processing", "exited"}
    /\ pc \in {"idle", "list_tools", "chat", "call_tool"}
    /\ turns \in 0..(MaxTurns + 1)
    /\ line \in Lines \cup {<<>>}
    /\ query \in {Strip(l) : l \in Lines} \cup {<<>>}
    /\ content \in Contents
    /\ tool_calls \in ToolCallLists
    /\ Len(tool_responses) <= Len(tool_calls)
    /\ Len(log) <= 2 + Len(tool_calls)
    /\ response.status \in {"none", "returned", "raised"}
    /\ read \in {"none", "returned", "raised"}
    /\ available_tools \in ToolLists
    /\ tools = FunctionDefs(available_tools)
    /\ cpc \in {"new", "constructed", "connecting", "connected", "failed"}
    /\ spawned \in BOOLEAN
    /\ escaped \in {NoEscape} \cup Escapes
    /\ cleanups \in 0..1

\* MCPClient() was constructed without credentials; connect_to_server was
\* not called, or it has returned and set self.session; chat_loop is about
\* to read its first line.
Init ==
    /\ session \in {"None", "ClientSession"}
    /\ loop = "awaiting"
    /\ pc = "idle"
    /\ turns = 0
    /\ line = <<>>
    /\ query = <<>>
    /\ content = <<>>
    /\ tool_calls = <<>>
    /\ tool_responses = <<>>
    /\ log = <<>>
    /\ response = NoResponse
    /\ printed = <<>>
    /\ read = "none"
    /\ available_tools = <<>>
    /\ tools = <<>>
    /\ params = NoParameters
    /\ env = NoEnvironment
    /\ self = Construct(NoParameters, NoEnvironment)
    /\ cpc = IF session = "None" THEN "constructed" ELSE "connected"
    /\ script = [exists |-> TRUE, suffix |-> ".py"]
    /\ stdout = IF session = "None" THEN <<>>
                ELSE StartOutput(None) \o SetupOutput(None)
    /\ spawned = (session # "None")
    /\ connect_error = None
    /\ escaped = NoEscape
    /\ cleanups = 0

(***************************************************************************)
(* chat_loop                                                               *)
(***************************************************************************)
\* mutant: 'quit' in query.lower()
IsQuit_Contains(q) ==
    \E k \in 1..(Len(q) - 3) : SubSeq(Lower(q), k, k + 3) = QuitToken

\* mutant: the loop listens for 'exit', not for 'quit'
IsQuit_Exit(q) == Lower(q) = <<"e", "x", "i", "t">>

\* mutant: query == 'quit'
IsQuit_CaseSensitive(q) == q = QuitToken

\* line 194: query.lower() == 'quit'
IsQuit(q) == Lower(q) = QuitToken

\* process_query is suspended at an await, chat_loop inside it
Suspended(at) ==
    /\ loop' = "processing"
    /\ pc' = at
    /\ response' = NoResponse
    /\ printed' = <<>>

\* mutant: the except clause prints the error and leaves the loop
Caught_Exit(msg) ==
    /\ loop' = "exited"
    /\ pc' = "idle"
    /\ printed' = <<"\n", "Error: ">> \o msg

\* lines 200-201: the except clause of chat_loop, then the next iteration
Caught(msg) ==
    /\ loop' = "awaiting"
    /\ pc' = "idle"
    /\ printed' = <<"\n", "Error: ">> \o msg

\* process_query raises msg into chat_loop
Raise(msg) ==
    /\ response' = [status |-> "raised", text |-> msg]
    /\ Caught(msg)

\* mutant: from the second turn on the reply is marked as a continuation of
\* the conversation (state kept from one turn leaks into the next reply)
Return_Continued(text) ==
    /\ response' = [status |-> "returned",
                    text |-> IF turns > 1 THEN <<"(continued)", "\n">> \o text ELSE text]
    /\ loop' = "awaiting"
    /\ pc' = "idle"
    /\ printed' = <<"\n">> \o text

\* lines 197-198: process_query returns text, chat_loop prints it and loops
Return(text) ==
    /\ response' = [status |-> "returned", text |-> text]
    /\ loop' = "awaiting"
    /\ pc' = "idle"
    /\ printed' = <<"\n">> \o text

\* a new iteration of the while loop starts with no reply and no requests
NewIteration ==
    /\ content' = <<>>
    /\ tool_calls' = <<>>
    /\ tool_responses' = <<>>
    /\ available_tools' = <<>>
    /\ tools' = <<>>

\* lines 192-195: the line read is the quit token, break
InputQuit(l) ==
    /\ loop = "awaiting"
    /\ IsQuit(Strip(l))
    /\ turns' = turns + 1
    /\ line' = l
    /\ query' = Strip(l)
    /\ NewIteration
    /\ log' = <<>>
    /\ response' = NoResponse
    /\ printed' = <<>>
    /\ loop' = "exited"
    /\ pc' = "idle"
    /\ read' = "returned"
    /\ UNCHANGED <<session, startVars>>

\* mutant: process_query does not test self.session before using it
InputQuery_NoSessionCheck(l) ==
    /\ loop = "awaiting"
    /\ turns < MaxTurns
    /\ ~IsQuit(Strip(l))
    /\ turns' = turns + 1
    /\ line' = l
    /\ query' = Strip(l)
    /\ NewIteration
    /\ log' = <<Request("list_tools", <<>>, EmptyDict)>>
    /\ Suspended("list_tools")
    /\ read' = "returned"
    /\ UNCHANGED <<session, startVars>>

\* mutant: the tool list is fetched by the first query only; later queries
\* go to the model at once
InputQuery_FetchOnce(l) ==
    /\ loop = "awaiting"
    /\ turns < MaxTurns
    /\ ~IsQuit(Strip(l))
    /\ turns' = turns + 1
    /\ line' = l
    /\ query' = Strip(l)
    /\ NewIteration
    /\ IF session = "None"
       THEN /\ log' = <<>>
            /\ Raise(SessionError)
       ELSE IF turns >= 1
       THEN /\ log' = <<Request("chat", Strip(l), EmptyDict)>>
            /\ Suspended("chat")
       ELSE /\ log' = <<Request("list_tools", <<>>, EmptyDict)>>
            /\ Suspended("list_tools")
    /\ read' = "returned"
    /\ UNCHANGED <<session, startVars>>

\* mutant: an empty query is skipped (if not query: continue)
InputQuery_SkipEmpty(l) ==
    /\ loop = "awaiting"
    /\ turns < MaxTurns
    /\ ~IsQuit(Strip(l))
    /\ turns' = turns + 1
    /\ line' = l
    /\ query' = Strip(l)
    /\ NewIteration
    /\ IF Strip(l) = <<>>
       THEN /\ log' = <<>>
            /\ response' = NoResponse
            /\ printed' = <<>>
            /\ loop' = "awaiting"
            /\ pc' = "idle"
       ELSE IF session = "None"
       THEN /\ log' = <<>>
            /\ Raise(SessionError)
       ELSE /\ log' = <<Request("list_tools", <<>>, EmptyDict)>>
            /\ Suspended("list_tools")
    /\ read' = "returned"
    /\ UNCHANGED <<session, startVars>>

\* lines 192-197 and 112-116: any other line is handed to process_query,
\* which raises without a session and otherwise awaits list_tools
InputQuery(l) ==
    /\ loop = "awaiting"
    /\ turns < MaxTurns
    /\ ~IsQuit(Strip(l))
    /\ turns' = turns + 1
    /\ line' = l
    /\ query' = Strip(l)
    /\ NewIteration
    /\ IF session = "None"
       THEN /\ log' = <<>>
            /\ Raise(SessionError)
       ELSE /\ log' = <<Request("list_tools", <<>>, EmptyDict)>>
            /\ Suspended("list_tools")
    /\ read' = "returned"
    /\ UNCHANGED <<session, startVars>>

\* mutant: end of input leaves the loop
InputFault_Exits ==
    /\ loop = "awaiting"
    /\ turns < MaxTurns
    /\ turns' = turns + 1
    /\ NewIteration
    /\ log' = <<>>
    /\ response' = NoResponse
    /\ printed' = <<"\n", "Error: ">> \o EOFText
    /\ loop' = "exited"
    /\ pc' = "idle"
    /\ read' = "raised"
    /\ UNCHANGED <<session, line, query, startVars>>

\* line 192 raising (end of input), lines 200-201
InputFault ==
    /\ loop = "awaiting"
    /\ turns < MaxTurns
    /\ turns' = turns + 1
    /\ NewIteration
    /\ log' = <<>>
    /\ response' = NoResponse
    /\ Caught(EOFText)
    /\ read' = "raised"
    /\ UNCHANGED <<session, line, query, startVars>>

(***************************************************************************)
(* process_query                                                           *)
(***************************************************************************)
\* what a step of process_query leaves alone
turnVars == <<session, turns, line, query, read, startVars>>

\* lines 155-170: the request made for one entry of tool_calls
CallRequest(call) == Request("call_tool", call.name, FunctionArgs(call.arguments))

\* mutant: tool_responses.insert(0, outcome)
Record_Prepend(responses, outcome) == <<outcome>> \o responses

\* tool_responses.append(outcome)
Record(responses, outcome) == Append(responses, outcome)

\* mutant: once every call has an outcome, the outcomes are sent to the model
\* in a second request
Advance_Followup(l, c, calls, responses) ==
    /\ tool_responses' = responses
    /\ IF Len(responses) < Len(calls)
       THEN /\ log' = Append(l, CallRequest(calls[Len(responses) + 1]))
            /\ Suspended("call_tool")
       ELSE IF calls # <<>>
       THEN /\ log' = Append(l, Request("chat", Join(NL, responses), EmptyDict))
            /\ Suspended("chat")
       ELSE /\ log' = l
            /\ Return(Compose(c, calls, responses))

\* mutant: the calls that remain are all started at once
Advance_Gather(l, c, calls, responses) ==
    /\ tool_responses' = responses
    /\ IF Len(responses) < Len(calls)
       THEN /\ log' = l \o [k \in 1..(Len(calls) - Len(responses)) |->
                                CallRequest(calls[Len(responses) + k])]
            /\ Suspended("call_tool")
       ELSE /\ log' = l
            /\ Return(Compose(c, calls, responses))

\* lines 154-183 after an outcome was recorded: the next entry of tool_calls
\* is called, or the reply is composed and returned
Advance(l, c, calls, responses) ==
    /\ tool_responses' = responses
    /\ IF Len(responses) < Len(calls)
       THEN /\ log' = Append(l, CallRequest(calls[Len(responses) + 1]))
            /\ Suspended("call_tool")
       ELSE /\ log' = l
            /\ Return(Compose(c, calls, responses))

\* lines 116-143: list_tools returned the descriptors, the function list is
\* built and the model is asked
ListToolsReturn(descriptors) ==
    /\ pc = "list_tools"
    /\ log' = Append(Answered(log, "ok", <<>>, NoResult), Request("chat", query, EmptyDict))
    /\ Suspended("chat")
    /\ available_tools' = descriptors
    /\ tools' = FunctionDefs(descriptors)
    /\ UNCHANGED <<turnVars, content, tool_calls, tool_responses>>

\* mutant: a list_tools fault is swallowed and the model asked without tools
ListToolsFault_Swallowed(m) ==
    /\ pc = "list_tools"
    /\ log' = Append(Answered(log, "fault", m, NoResult), Request("chat", query, EmptyDict))
    /\ Suspended("chat")
    /\ UNCHANGED <<turnVars, content, tool_calls, tool_responses, available_tools, tools>>

\* line 116 raising
ListToolsFault(m) ==
    /\ pc = "list_tools"
    /\ log' = Answered(log, "fault", m, NoResult)
    /\ Raise(m)
    /\ UNCHANGED <<turnVars, content, tool_calls, tool_responses, available_tools, tools>>

\* lines 138-170 and 183: the model replied with content c and tool calls
ChatReturn(c, calls) ==
    /\ pc = "chat"
    /\ content' = c
    /\ tool_calls' = calls
    /\ Advance(Answered(log, "ok", <<>>, NoResult), c, calls, <<>>)
    /\ available_tools' = <<>>
    /\ tools' = <<>>
    /\ UNCHANGED <<turnVars>>

\* line 138 raising
ChatFault(m) ==
    /\ pc = "chat"
    /\ log' = Answered(log, "fault", m, NoResult)
    /\ Raise(m)
    /\ available_tools' = <<>>
    /\ tools' = <<>>
    /\ UNCHANGED <<turnVars, content, tool_calls, tool_responses>>

\* lines 170-178: call_tool returned r
CallToolReturn(r) ==
    /\ pc = "call_tool"
    /\ LET name == tool_calls[Len(tool_responses) + 1].name
           t == ResultText(r)
           outcome == IF t.ok THEN ResultLine(name, t.text) ELSE ErrorLine(name, t.text)
       IN  Advance(Answered(log, "ok", <<>>, r), content, tool_calls,
                   Record(tool_responses, outcome))
    /\ UNCHANGED <<turnVars, content, tool_calls, available_tools, tools>>

\* mutant: after a fault the remaining tool calls are skipped
CallToolFault_Break(m) ==
    /\ pc = "call_tool"
    /\ LET name == tool_calls[Len(tool_responses) + 1].name
           responses == Record(tool_responses, ErrorLine(name, m))
       IN  /\ tool_responses' = responses
           /\ log' = Answered(log, "fault", m, NoResult)
           /\ Return(Compose(content, tool_calls, responses))
    /\ UNCHANGED <<turnVars, content, tool_calls, available_tools, tools>>

\* mutant: the fault of call_tool is not caught
CallToolFault_Reraise(m) ==
    /\ pc = "call_tool"
    /\ log' = Answered(log, "fault", m, NoResult)
    /\ Raise(m)
    /\ UNCHANGED <<turnVars, content, tool_calls, tool_responses, available_tools, tools>>

\* lines 170, 177-178: call_tool raised m
CallToolFault(m) ==
    /\ pc = "call_tool"
    /\ LET name == tool_calls[Len(tool_responses) + 1].name
       IN  Advance(Answered(log, "fault", m, NoResult), content, tool_calls,
                   Record(tool_responses, ErrorLine(name, m)))
    /\ UNCHANGED <<turnVars, content, tool_calls, available_tools, tools>>

Next ==
    \/ \E l \in Lines : InputQuit(l)
    \/ \E l \in Lines : InputQuery(l)
    \/ InputFault
    \/ \E descriptors \in ToolLists : ListToolsReturn(descriptors)
    \/ \E m \in Faults : ListToolsFault(m)
    \/ \E c \in Contents, calls \in ToolCallLists : ChatReturn(c, calls)
    \/ \E m \in Faults : ChatFault(m)
    \/ \E r \in ToolResults : CallToolReturn(r)
    \/ \E m \in Faults : CallToolFault(m)

Spec == Init /\ [][Next]_vars

(***************************************************************************)
(* One tool call, for every shape of its arguments and of its result        *)
(***************************************************************************)
\* function.get("arguments", {}) in the shapes a model reply can carry: a
\* dict, a str that decodes to an object, to a list, to a number, to null or
\* not at all, a list, a number, None
ArgumentShapes ==
    { Dict(<<"\"param\": \"value\"">>),
      Dict(<<>>),
      Text(<<"{", "\"param\": \"value\"", "}">>),
      Text(<<"{", "}">>),
      Text(<<"{", "\"param\": \"value\"">>),
      Text(<<>>),
      Text(<<"[", "1", ",", "null", "]">>),
      Text(<<"1">>),
      Text(<<"null">>),
      List(<<"1">>),
      Scalar("1"),
      Scalar("null") }

CallShapes == { [name |-> <<"test_tool">>, arguments |-> a] : a \in ArgumentShapes }

\* what call_tool may return: content a list of one or two text items, an
\* empty list, a list whose first item has no text, content that is not
\* iterable, no content attribute
ResultShapes ==
    { ToolResult(<<Item(<<"Tool result">>)>>, <<"[TextContent]">>),
      ToolResult(<<Item(<<"Tool result">>), NoTextItem>>, <<"[TextContent, ImageContent]">>),
      ToolResult(<<>>, <<"[]">>),
      ToolResult(<<NoTextItem>>, <<"[ImageContent]">>),
      [hasContent |-> TRUE, isSeq |-> FALSE, items |-> <<>>, repr |-> <<"None">>],
      [hasContent |-> FALSE, isSeq |-> FALSE, items |-> <<>>, repr |-> <<"{'status': 'ok'}">>] }

\* process_query("quits") on a connected client has listed no tools and is
\* waiting for the reply of the model
CallInit ==
    /\ session = "ClientSession"
    /\ loop = "processing"
    /\ pc = "chat"
    /\ turns = 1
    /\ line = <<" ", "q", "u", "i", "t", "s">>
    /\ query = Strip(line)
    /\ content = <<>>
    /\ tool_calls = <<>>
    /\ tool_responses = <<>>
    /\ log = <<[Request("list_tools", <<>>, EmptyDict) EXCEPT !.out = "ok"],
               Request("chat", query, EmptyDict)>>
    /\ response = NoResponse
    /\ printed = <<>>
    /\ read = "returned"
    /\ available_tools = <<>>
    /\ tools = <<>>
    /\ params = NoParameters
    /\ env = NoEnvironment
    /\ self = Construct(NoParameters, NoEnvironment)
    /\ cpc = "connected"
    /\ script = [exists |-> TRUE, suffix |-> ".py"]
    /\ stdout = StartOutput(None) \o SetupOutput(None)
    /\ spawned = TRUE
    /\ connect_error = None
    /\ escaped = NoEscape
    /\ cleanups = 0

CallNext ==
    \/ \E c \in Contents, call \in CallShapes : ChatReturn(c, <<call>>)
    \/ \E r \in ResultShapes : CallToolReturn(r)
    \/ \E m \in Faults : CallToolFault(m)

CallSpec == CallInit /\ [][CallNext]_vars

(***************************************************************************)
(* A second query, after a first one that was served a known tool list      *)
(***************************************************************************)
\* the tool list the transport held during the first query
FirstServed ==
    << [name |-> Some(<<"get_leave_balance">>),
        description |-> Some(<<"Get leave balance">>),
        inputSchema |-> Some(<<"\"type\": \"object\"", "\"properties\": {\"employee_id\"}">>)] >>

\* process_query("quits") on a connected client was served FirstServed by
\* list_tools, the model replied with content and no tool call, the reply was
\* printed, and chat_loop is about to read the next line
FetchInit ==
    /\ session = "ClientSession"
    /\ loop = "awaiting"
    /\ pc = "idle"
    /\ turns = 1
    /\ line = <<" ", "q", "u", "i", "t", "s">>
    /\ query = Strip(line)
    /\ content = <<"Checking leave balance...">>
    /\ tool_calls = <<>>
    /\ tool_responses = <<>>
    /\ log = <<[Request("list_tools", <<>>, EmptyDict) EXCEPT !.out = "ok"],
               [Request("chat", query, EmptyDict) EXCEPT !.out = "ok"]>>
    /\ response = [status |-> "returned", text |-> content]
    /\ printed = <<"\n">> \o content
    /\ read = "returned"
    /\ available_tools = <<>>
    /\ tools = <<>>
    /\ params = NoParameters
    /\ env = NoEnvironment
    /\ self = Construct(NoParameters, NoEnvironment)
    /\ cpc = "connected"
    /\ script = [exists |-> TRUE, suffix |-> ".py"]
    /\ stdout = StartOutput(None) \o SetupOutput(None)
    /\ spawned = TRUE
    /\ connect_error = None
    /\ escaped = NoEscape
    /\ cleanups = 0

FetchSpec == FetchInit /\ [][Next]_vars

(***************************************************************************)
(* Construction and connection                                             *)
(***************************************************************************)
\* what a step of __init__ or connect_to_server leaves alone
loopVars == <<loop, pc, turns, line, query, content, tool_calls, tool_responses,
              log, response, printed, read, available_tools, tools>>

\* MCPClient(api_key=..., token=...) is about to be called, and a server
\* script path is at hand
StartInit ==
    /\ params \in Parameters
    /\ env \in Environments
    /\ script \in Scripts
    /\ self = Unconstructed
    /\ cpc = "new"
    /\ session = "None"
    /\ stdout = <<>>
    /\ spawned = FALSE
    /\ connect_error = None
    /\ escaped = NoEscape
    /\ cleanups = 0
    /\ loop = "awaiting"
    /\ pc = "idle"
    /\ turns = 0
    /\ line = <<>>
    /\ query = <<>>
    /\ content = <<>>
    /\ tool_calls = <<>>
    /\ tool_responses = <<>>
    /\ log = <<>>
    /\ response = NoResponse
    /\ printed = <<>>
    /\ read = "none"
    /\ available_tools = <<>>
    /\ tools = <<>>

\* lines 18-38: __init__
ConstructClient ==
    /\ cpc = "new"
    /\ self' = Construct(params, env)
    /\ session' = "None"
    /\ cpc' = "constructed"
    /\ UNCHANGED <<params, env, script, stdout, spawned, connect_error, loopVars, mainVars>>

\* lines 48-57: connect_to_server raises for a script it does not accept
ConnectRejected ==
    /\ cpc = "constructed"
    /\ ~Acceptable(script)
    /\ connect_error' = Some(RejectionError(script))
    /\ cpc' = "failed"
    /\ UNCHANGED <<params, env, self, script, stdout, spawned, session, loopVars, mainVars>>

\* lines 48-84: the script is accepted, the messages are printed and
\* stdio_client is entered
ConnectStart ==
    /\ cpc = "constructed"
    /\ Acceptable(script)
    /\ stdout' = stdout \o StartOutput(self.auth_type)
    /\ spawned' = TRUE
    /\ cpc' = "connecting"
    /\ UNCHANGED <<params, env, self, script, connect_error, session, loopVars, mainVars>>

\* lines 84-100: every await returned
ConnectReturn ==
    /\ cpc = "connecting"
    /\ session' = "ClientSession"
    /\ stdout' = stdout \o SetupOutput(self.auth_type)
    /\ cpc' = "connected"
    /\ UNCHANGED <<params, env, self, script, spawned, connect_error, loopVars, mainVars>>

\* lines 84-109: the await of stage k raised m; self.session was assigned at
\* line 86 if the fault came later
ConnectFault(k, m) ==
    /\ cpc = "connecting"
    /\ session' = IF k >= 3 THEN "ClientSession" ELSE "None"
    /\ stdout' = stdout \o FaultOutput(k)
    /\ connect_error' = Some(ConnectError(k, m))
    /\ cpc' = "failed"
    /\ UNCHANGED <<params, env, self, script, spawned, loopVars, mainVars>>

\* process_query is invoked on a client whose connect_to_server has raised
QueryAfterFailure == cpc = "failed" /\ \E l \in Lines : InputQuery(l)

StartNext ==
    \/ ConstructClient
    \/ ConnectRejected
    \/ ConnectStart
    \/ ConnectReturn
    \/ \E k \in 1..Len(Stages), m \in ConnectFaults : ConnectFault(k, m)
    \/ QueryAfterFailure

StartSpec == StartInit /\ [][StartNext]_vars

(***************************************************************************)
(* main                                                                    *)
(***************************************************************************)
\* the server paths main is run with: a script that is there, one that is
\* missing, one of the wrong type
MainScripts ==
    { [exists |-> TRUE, suffix |-> ".py"],
      [exists |-> FALSE, suffix |-> ".py"],
      [exists |-> TRUE, suffix |-> ".txt"] }

\* lines 216-225: main is about to call MCPClient()
MainInit ==
    /\ params = NoParameters
    /\ env = NoEnvironment
    /\ script \in MainScripts
    /\ self = Unconstructed
    /\ cpc = "new"
    /\ session = "None"
    /\ stdout = <<>>
    /\ spawned = FALSE
    /\ connect_error = None
    /\ escaped = NoEscape
    /\ cleanups = 0
    /\ loop = "awaiting"
    /\ pc = "idle"
    /\ turns = 0
    /\ line = <<>>
    /\ query = <<>>
    /\ content = <<>>
    /\ tool_calls = <<>>
    /\ tool_responses = <<>>
    /\ log = <<>>
    /\ response = NoResponse
    /\ printed = <<>>
    /\ read = "none"
    /\ available_tools = <<>>
    /\ tools = <<>>

\* line 228: connect_to_server has returned and chat_loop is running
InLoop == cpc = "connected" /\ escaped = NoEscape

\* mutant: cleanup is called after the try block, not in a finally clause
TryLeft_NoFinally ==
    \/ cpc = "failed"
    \/ loop = "exited"
    \/ escaped.kind = "Exception"

\* lines 226-233: the try block was left, by a fault of connect_to_server, by
\* the return of chat_loop or by a fault of chat_loop
TryLeft ==
    \/ cpc = "failed"
    \/ loop = "exited"
    \/ escaped # NoEscape

\* lines 185-201: a fault leaves chat_loop while it is at input()
ChatLoopEscapes(e) ==
    /\ InLoop
    /\ loop = "awaiting"
    /\ escaped' = e
    /\ UNCHANGED <<session, loopVars, params, env, self, cpc, script, stdout,
                   spawned, connect_error, cleanups>>

\* lines 229-235: the except clause prints an Exception, the finally clause
\* calls cleanup
MainCleanup ==
    /\ TryLeft
    /\ cleanups = 0
    /\ stdout' = IF cpc = "failed" THEN stdout \o <<"Error: ">> \o connect_error.s
                 ELSE IF escaped.kind = "Exception" THEN stdout \o <<"Error: ">> \o escaped.text
                 ELSE stdout
    /\ cleanups' = cleanups + 1
    /\ UNCHANGED <<session, loopVars, params, env, self, cpc, script,
                   spawned, connect_error, escaped>>

MainNext ==
    \/ ConstructClient
    \/ ConnectRejected
    \/ ConnectStart
    \/ ConnectReturn
    \/ \E k \in 1..Len(Stages), m \in ConnectFaults : ConnectFault(k, m)
    \/ InLoop /\ \E l \in Lines : InputQuit(l)
    \/ InLoop /\ \E l \in Lines : InputQuery(l)
    \/ InLoop /\ InputFault
    \/ InLoop /\ ListToolsReturn(<<>>)
    \/ InLoop /\ \E m \in Faults : ListToolsFault(m)
    \/ InLoop /\ \E c \in Contents, call \in ToolCalls : ChatReturn(c, <<call>>)
    \/ InLoop /\ \E c \in Contents : ChatReturn(c, <<>>)
    \/ InLoop /\ \E m \in Faults : ChatFault(m)
    \/ InLoop /\ \E r \in ToolResults : CallToolReturn(r)
    \/ InLoop /\ \E m \in Faults : CallToolFault(m)
    \/ \E e \in Escapes : ChatLoopEscapes(e)
    \/ MainCleanup

\* asyncio.run(main()) runs main to its end: the finally clause is not
\* postponed for ever
MainSpec == MainInit /\ [][MainNext]_vars /\ WF_vars(MainCleanup)

\* a pending list_tools, ollama.chat or call_tool returns or raises
Answers ==
    \/ /\ pc = "list_tools"
       /\ \/ \E descriptors \in ToolLists : ListToolsReturn(descriptors)
          \/ \E m \in Faults : ListToolsFault(m)
    \/ /\ pc = "chat"
       /\ \/ \E c \in Contents, calls \in ToolCallLists : ChatReturn(c, calls)
          \/ \E m \in Faults : ChatFault(m)
    \/ /\ pc = "call_tool"
       /\ \/ \E r \in ToolResults : CallToolReturn(r)
          \/ \E m \in Faults : CallToolFault(m)

\* the user types the quit token
UserQuits == \E l \in Lines : InputQuit(l)

\* Every awaited call ends, and a user who is prompted again and again
\* eventually types the quit token.
LiveSpec == Spec /\ WF_vars(Answers) /\ SF_vars(UserQuits)

(***************************************************************************)
(* Vocabulary of the properties                                            *)
(***************************************************************************)
IsCallTool(e) == e.op = "call_tool"
IsChat(e) == e.op = "chat"

\* the call_tool requests of this iteration, in the order they were made
Calls == SelectSeq(log, IsCallTool)

Returned == response.status = "returned"
Raised == response.status = "raised"

\* text.split("\n")
RECURSIVE Split(_)
Split(t) ==
    IF t = <<>> THEN << <<>> >>
    ELSE IF t[1] = "\n" THEN << <<>> >> \o Split(Tail(t))
    ELSE LET rest == Split(Tail(t))
         IN  << <<t[1]>> \o rest[1] >> \o Tail(rest)

\* the last n lines of a text
LastLines(t, n) == SubSeq(Split(t), Len(Split(t)) - n + 1, Len(Split(t)))

Headers == {"Tool '", "Error calling tool '"}

\* the tool names of the outcome lines found in a text, in the order found
RECURSIVE OutcomeNames(_)
OutcomeNames(t) ==
    IF Len(t) < 2 THEN <<>>
    ELSE IF t[1] \in Headers THEN <<t[2]>> \o OutcomeNames(Tail(t))
    ELSE OutcomeNames(Tail(t))

\* a line that is the quit token in some letter case between whitespace
QuitLine(l) ==
    \E a \in 0..Len(l) :
        /\ a + 4 <= Len(l)
        /\ \A k \in 1..a : l[k] \in {" ", "\t"}
        /\ \A k \in (a + 5)..Len(l) : l[k] \in {" ", "\t"}
        /\ l[a + 1] \in {"q", "Q"}
        /\ l[a + 2] \in {"u", "U"}
        /\ l[a + 3] \in {"i", "I"}
        /\ l[a + 4] \in {"t", "T"}

\* the outcome text owed to an answered call_tool request whose result has a
\* first content element with text, or which raised
Owed(e) ==
    IF e.out = "fault"
    THEN <<"Error calling tool '">> \o e.name \o <<"': ">> \o e.msg
    ELSE <<"Tool '">> \o e.name \o <<"' result: ">> \o e.result.items[1].text

Plain(e) ==
    \/ e.out = "fault"
    \/ e.out = "ok" /\ e.result.items # <<>> /\ e.result.items[1].hasText

(***************************************************************************)
(* Properties                                                              *)
(***************************************************************************)
\* C1: exactly-once mediation.  At any moment the call_tool requests made in
\* a turn are the first entries of the model's tool_calls, one request each,
\* in order, with one outcome recorded per answered request; and when
\* process_query returns for a reply with N >= 1 tool calls, exactly N
\* requests were made, every one answered, and the returned text holds
\* exactly N outcome lines, whatever mix of returns and faults occurred.
ExactlyOnceMediation ==
    /\ Len(Calls) <= Len(tool_calls)
    /\ \A k \in 1..Len(Calls) : Calls[k].name = tool_calls[k].name
    /\ pc = "call_tool" =>
          /\ Len(Calls) = Len(tool_responses) + 1
          /\ Calls[Len(Calls)].out = "pending"
    /\ (Returned /\ tool_calls # <<>>) =>
          /\ Len(Calls) = Len(tool_calls)
          /\ \A k \in 1..Len(Calls) : Calls[k].out \in {"ok", "fault"}
          /\ Len(OutcomeNames(response.text)) = Len(tool_calls)

\* C1 witness: a turn with two tool calls returned, the first call having
\* faulted and the second having returned.
ExactlyOnceWitness ==
    /\ Returned
    /\ Len(tool_calls) = 2
    /\ Calls[1].out = "fault"
    /\ Calls[2].out = "ok"

\* C2: a fault raised by call_tool never makes process_query raise: the turn
\* goes on to the next call or returns, the outcome recorded for that call is
\* "Error calling tool '<name>': <message>" with the fault's message, and that
\* line is in the returned text at the call's place.
CallFaultBecomesErrorLine ==
    \A k \in 1..Len(Calls) :
        Calls[k].out = "fault" =>
            /\ ~Raised
            /\ pc = "call_tool" \/ Returned
            /\ Len(tool_responses) >= k
            /\ tool_responses[k] =
                  <<"Error calling tool '">> \o tool_calls[k].name
                      \o <<"': ">> \o Calls[k].msg
            /\ Returned =>
                  LastLines(response.text, Len(tool_calls))[k] = tool_responses[k]

\* C2 witness: process_query returned although its only tool call faulted.
CallFaultWitness ==
    /\ Returned
    /\ Len(tool_calls) = 1
    /\ Calls[1].out = "fault"
    /\ Calls[1].msg = <<"Tool execution failed">>

\* C3: session fault isolation.  Whenever process_query has raised (no
\* session, list_tools raising, the model call raising), chat_loop is back at
\* awaiting input, has printed the one line "Error: <message>" for it, and has
\* not exited.
SessionFaultIsolation ==
    /\ Raised =>
          /\ loop = "awaiting"
          /\ pc = "idle"
          /\ printed = <<"\n", "Error: ">> \o response.text
    /\ (log # <<>> /\ log[Len(log)].out = "fault" /\ ~IsCallTool(log[Len(log)])) =>
          /\ loop = "awaiting"
          /\ printed = <<"\n", "Error: ">> \o log[Len(log)].msg

\* C3 witness: the model call raised and the loop awaits input again.
SessionFaultWitness ==
    /\ Raised
    /\ Len(log) = 2
    /\ log[2].op = "chat"
    /\ log[2].out = "fault"
    /\ loop = "awaiting"

\* C4: chat_loop starts awaiting input; it moves to exited only from
\* awaiting input, on a line that is the quit token in some letter case
\* between whitespace; from processing it goes nowhere but back to awaiting
\* input; and exited is terminal.
ChatLoopStateMachine ==
    /\ loop = "awaiting"
    /\ [][ /\ loop # "exited"
           /\ loop' = "exited" => (loop = "awaiting" /\ QuitLine(line'))
           /\ loop = "processing" => loop' \in {"processing", "awaiting"}
         ]_vars

\* C4 witness: the loop exited, after an earlier iteration, on a padded
\* mixed-case quit line.
ChatLoopExitWitness ==
    /\ loop = "exited"
    /\ turns = 2
    /\ line = <<" ", "Q", "u", "i", "t", "\t">>

\* C5: ordering of the reply.  In the text returned for a reply with N tool
\* calls, the k-th outcome line is the outcome of the k-th listed call, and
\* the model's text, when non-empty, is the line before all of them.
ReplyOrdering ==
    (Returned /\ tool_calls # <<>>) =>
        /\ OutcomeNames(response.text) =
              [k \in 1..Len(tool_calls) |-> tool_calls[k].name[1]]
        /\ \A k \in 1..Len(tool_calls) :
              Plain(Calls[k]) =>
                  LastLines(response.text, Len(tool_calls))[k] = Owed(Calls[k])
        /\ content # <<>> =>
              /\ Len(Split(response.text)) = Len(tool_calls) + 1
              /\ Split(response.text)[1] = content

\* C5 witness: a returned reply with model text and two calls of different
\* tools with different outcomes.
ReplyOrderingWitness ==
    /\ Returned
    /\ content # <<>>
    /\ Len(tool_calls) = 2
    /\ tool_calls[1].name # tool_calls[2].name
    /\ Calls[1].out = "ok"
    /\ Calls[2].out = "fault"

\* C6: turn-fatal faults propagate.  When list_tools or the model call has
\* raised, process_query has raised that fault to chat_loop, no call_tool was
\* requested in the turn, and after a list_tools fault the model was not
\* asked either.
TurnFatalPropagates ==
    \A k \in 1..Len(log) :
        (log[k].out = "fault" /\ ~IsCallTool(log[k])) =>
            /\ response = [status |-> "raised", text |-> log[k].msg]
            /\ Calls = <<>>
            /\ k = Len(log)
            /\ log[k].op = "list_tools" => SelectSeq(log, IsChat) = <<>>

\* C6 witness: list_tools raised and process_query raised with its message.
TurnFatalWitness ==
    /\ Len(log) = 1
    /\ log[1].op = "list_tools"
    /\ log[1].out = "fault"
    /\ Raised

\* C7: a tool call whose raw arguments are text that does not decode as JSON
\* is still requested, under its function name and with the empty mapping;
\* the turn does not raise and the call gets its outcome.
InvalidJsonStillCalls ==
    \A k \in 1..Len(tool_calls) :
        (tool_calls[k].arguments.type = "str"
            /\ tool_calls[k].arguments.body = <<"{", "\"param\": \"value\"">>) =>
            /\ ~Raised
            /\ Len(tool_responses) >= k - 1 => Len(Calls) >= k
            /\ Len(Calls) >= k =>
                  /\ Calls[k].name = tool_calls[k].name
                  /\ Calls[k].args = [type |-> "dict", body |-> <<>>]
            /\ Returned => (Len(Calls) >= k /\ Len(tool_responses) >= k)

\* C7 witness: a turn returned whose second tool call carried undecodable
\* arguments and got a result.
InvalidJsonWitness ==
    /\ Returned
    /\ Len(tool_calls) = 2
    /\ tool_calls[2].arguments = Text(<<"{", "\"param\": \"value\"">>)
    /\ Calls[2].out = "ok"

\* C8: final text composition.  The returned text, cut at its line breaks, is
\* the model content followed by the outcome texts when the content is
\* non-empty, the outcome texts alone when it is empty, and the empty string
\* when there is neither content nor a tool call.
FinalTextComposition ==
    Returned =>
        /\ content # <<>> => Split(response.text) = <<content>> \o tool_responses
        /\ (content = <<>> /\ tool_calls # <<>>) =>
              Split(response.text) = tool_responses
        /\ (content = <<>> /\ tool_calls = <<>>) => response.text = <<>>
        /\ Len(tool_responses) = Len(tool_calls)

\* C8 witness: a returned reply with empty content and two outcomes.
FinalTextWitness ==
    /\ Returned
    /\ content = <<>>
    /\ Len(tool_responses) = 2

\* C9: when process_query returns the empty text, the model text is empty
\* and there is no tool call outcome.
EmptyReplyOnlyIfNothing ==
    (Returned /\ response.text = <<>>) =>
        /\ content = <<>>
        /\ tool_responses = <<>>
        /\ tool_calls = <<>>

\* C9 witness: process_query returned the empty text.
EmptyReplyWitness ==
    /\ Returned
    /\ response.text = <<>>
    /\ Len(log) = 2

\* C10: when the first line read is the quit token in any letter case, the
\* loop has exited and nothing was asked of the session or of the model:
\* process_query was not invoked.
QuitFirstInvokesNothing ==
    (turns = 1 /\ QuitLine(line)) =>
        /\ loop = "exited"
        /\ pc = "idle"
        /\ log = <<>>
        /\ response = NoResponse
        /\ printed = <<>>

\* C10 witness: the loop exited on an upper-case quit as its first line.
QuitFirstWitness ==
    /\ turns = 1
    /\ loop = "exited"
    /\ line = <<"Q", "U", "I", "T">>

\* a line read by input() that holds whitespace and nothing else
WhitespaceOnly(l) == l # <<>> /\ \A k \in 1..Len(l) : l[k] \in {" ", "\t"}

\* C11: a whitespace-only line does not end the loop and is not skipped: its
\* trimmed form, the empty string, is the query process_query is invoked
\* with (without a session it raises at once, with one it asks list_tools
\* and then the model with that query), and once process_query has ended
\* the loop awaits input again.
WhitespaceLineIsAQuery ==
    (read = "returned" /\ WhitespaceOnly(line)) =>
        /\ loop # "exited"
        /\ query = <<>>
        /\ session = "None" =>
              response = [status |-> "raised", text |-> SessionError]
        /\ session # "None" =>
              /\ log # <<>>
              /\ log[1].op = "list_tools"
              /\ Len(log) >= 2 => (log[2].op = "chat" /\ log[2].name = <<>>)
        /\ response.status = "none" => loop = "processing"
        /\ response.status # "none" => loop = "awaiting"

\* C11 witness: two blanks were read, the model was asked with the empty
\* query and process_query returned.
WhitespaceLineWitness ==
    /\ line = <<" ", " ">>
    /\ read = "returned"
    /\ Len(log) >= 2
    /\ log[2].name = <<>>
    /\ Returned
    /\ loop = "awaiting"

\* C12: if every awaited call returns or raises and the user eventually
\* types the quit token, chat_loop eventually reaches exited, whatever
\* exchanges succeeded or failed before.
ChatLoopTerminates == <>(loop = "exited")

\* C12 witness: the loop exited after as many earlier iterations as the
\* model allows.
ChatLoopTerminatesWitness ==
    /\ loop = "exited"
    /\ turns = MaxTurns + 1

\* the outcome text of a call_tool request that has been answered
OutcomeOf(e) ==
    IF e.out = "fault"
    THEN <<"Error calling tool '">> \o e.name \o <<"': ">> \o e.msg
    ELSE IF e.result.hasContent /\ e.result.isSeq /\ e.result.items # <<>>
    THEN IF e.result.items[1].hasText
         THEN <<"Tool '">> \o e.name \o <<"' result: ">> \o e.result.items[1].text
         ELSE <<"Error calling tool '">> \o e.name \o <<"': ">> \o AttributeErrorText
    ELSE <<"Tool '">> \o e.name \o <<"' result: ">> \o e.result.repr

\* the reply as a function of one turn's data and of nothing else: the
\* model's content c and the answered call_tool requests
RECURSIVE OutcomeLines(_)
OutcomeLines(answered) ==
    IF answered = <<>> THEN <<>>
    ELSE OutcomeOf(answered[1])
            \o (IF Len(answered) > 1 THEN <<"\n">> \o OutcomeLines(Tail(answered)) ELSE <<>>)

ReplyOf(c, answered) ==
    IF answered = <<>> THEN c
    ELSE IF c = <<>> THEN OutcomeLines(answered)
    ELSE c \o <<"\n">> \o OutcomeLines(answered)

\* C13: no cross-turn memory.  The text process_query returns is a fixed
\* function of that turn's model reply and tool results, in whatever turn
\* and after whatever earlier turns (failed ones included) it is computed;
\* so two invocations that see the same data return the same text.
NoCrossTurnMemory ==
    Returned =>
        /\ \A k \in 1..Len(Calls) : Calls[k].name = tool_calls[k].name
        /\ Len(Calls) = Len(tool_calls)
        /\ response.text = ReplyOf(content, Calls)

\* C13 witness: a reply with a tool outcome returned in the second turn.
NoCrossTurnMemoryWitness ==
    /\ Returned
    /\ turns = 2
    /\ content # <<>>
    /\ Len(tool_calls) = 1
    /\ Calls[1].out = "ok"

\* C14: without a session nothing is ever asked of the session or of the
\* model, and every invocation of process_query has raised "Session is not
\* initialized. Call connect_to_server() first.".
NoSessionRaisesFirst ==
    session = "None" =>
        /\ log = <<>>
        /\ pc = "idle"
        /\ tools = <<>>
        /\ (read = "returned" /\ loop # "exited") =>
              response = [status |-> "raised",
                          text |-> <<"Session is not initialized. Call connect_to_server() first.">>]

\* C14 witness: process_query was invoked without a session and raised.
NoSessionWitness ==
    /\ session = "None"
    /\ read = "returned"
    /\ Raised
    /\ response.text = SessionError
    /\ log = <<>>

\* C15: connect_to_server raises the not-found fault for a path that does not
\* exist and the invalid-type fault for one that is not a .py or .js file,
\* before stdio_client is entered and before self.session is assigned; the
\* session stays unset, and a later process_query raises "Session is not
\* initialized" without asking anything of anyone.
ScriptRejectedFirst ==
    (~script.exists \/ script.suffix \notin {".py", ".js"}) =>
        /\ cpc \in {"new", "constructed", "failed"}
        /\ ~spawned
        /\ session = "None"
        /\ stdout = <<>>
        /\ cpc = "failed" =>
              connect_error = Some(IF script.exists
                                   THEN <<"Server script must be a .py or .js file">>
                                   ELSE NotFoundError)
        /\ read = "returned" =>
              /\ response = [status |-> "raised", text |-> SessionError]
              /\ log = <<>>

\* C15 witness: an existing .txt script was rejected and the process_query
\* that followed raised.
ScriptRejectedWitness ==
    /\ script = [exists |-> TRUE, suffix |-> ".txt"]
    /\ cpc = "failed"
    /\ connect_error = Some(SuffixError)
    /\ read = "returned"
    /\ Raised

\* C16: when connect_to_server has raised the not-found fault, the message
\* about the authentication in use was printed before it.
AuthMessageBeforeNotFound ==
    (cpc = "failed" /\ connect_error = Some(NotFoundError)) =>
        \E k \in 1..Len(stdout) :
            stdout[k] = (IF self.auth_type = Some(<<"api_key">>)
                         THEN "Using API key authentication"
                         ELSE IF self.auth_type = Some(<<"bearer">>)
                         THEN "Using Bearer token authentication"
                         ELSE "No authentication configured - connecting without authentication")

\* a credential that was given: a string that is not empty
Given(v) == ~v.none /\ v.s # <<>>

\* C17: the explicit API key wins over MCP_API_KEY; the explicit token wins
\* over MCP_TOKEN, which wins over MCP_BEARER_TOKEN; an API key makes the
\* authentication "api_key" with the key as its value, otherwise a token
\* makes it "bearer" with the token as its value, otherwise both are None;
\* auth_type is None exactly when auth_value is None.
CredentialPrecedence ==
    cpc # "new" =>
        /\ IF Given(params.api_key) THEN self.api_key = params.api_key
           ELSE IF Given(env.MCP_API_KEY) THEN self.api_key = env.MCP_API_KEY
           ELSE ~Given(self.api_key)
        /\ IF Given(params.token) THEN self.token = params.token
           ELSE IF Given(env.MCP_TOKEN) THEN self.token = env.MCP_TOKEN
           ELSE IF Given(env.MCP_BEARER_TOKEN) THEN self.token = env.MCP_BEARER_TOKEN
           ELSE ~Given(self.token)
        /\ IF Given(self.api_key)
           THEN self.auth_type = Some(<<"api_key">>) /\ self.auth_value = self.api_key
           ELSE IF Given(self.token)
           THEN self.auth_type = Some(<<"bearer">>) /\ self.auth_value = self.token
           ELSE self.auth_type = None /\ self.auth_value = None
        /\ self.auth_type.none <=> self.auth_value.none

\* C17 witness: a client was constructed with every source of credentials
\* given, each with its own value.
CredentialPrecedenceWitness ==
    /\ cpc = "constructed"
    /\ Given(params.api_key) /\ Given(params.token)
    /\ Given(env.MCP_API_KEY) /\ Given(env.MCP_TOKEN) /\ Given(env.MCP_BEARER_TOKEN)
    /\ self.auth_type = Some(<<"api_key">>)
    /\ self.token = params.token

ArgumentsAlwaysMapping ==
    \A k \in 1..Len(Calls) :
        LET raw == tool_calls[k].arguments
            decoded == JsonLoads(raw.body)
        IN  /\ Calls[k].args.type = "dict"
            /\ Calls[k].args =
                  (IF raw.type = "dict" THEN raw
                   ELSE IF raw.type = "str" /\ decoded.ok /\ decoded.value.type = "dict"
                   THEN decoded.value
                   ELSE Dict(<<>>))

\* C20: every call that call_tool answered without raising has an outcome
\* line "Tool '<name>' result: <text>", text being the text of the first
\* content element where there is one and the stringified payload otherwise.
ReturnedCallHasSuccessLine ==
    \A k \in 1..Len(tool_responses) :
        (k <= Len(Calls) /\ Calls[k].out = "ok") =>
            LET r == Calls[k].result
                text == IF r.hasContent /\ r.isSeq /\ Len(r.items) > 0 /\ r.items[1].hasText
                        THEN r.items[1].text
                        ELSE r.repr
            IN  tool_responses[k] =
                    <<"Tool '">> \o Calls[k].name \o <<"' result: ">> \o text

\* C21: the tool calls of a query are made one at a time.  At most one
\* request is unanswered at any moment and it is the last one made; every
\* call before the last was answered and its outcome recorded before the
\* next one was made; while a call is in flight exactly the outcomes of the
\* calls before it are recorded.
ToolCallsSerialized ==
    /\ \A k \in 1..Len(log) : log[k].out = "pending" => k = Len(log)
    /\ \A k \in 1..Len(Calls) :
          /\ k < Len(Calls) =>
                /\ Calls[k].out \in {"ok", "fault"}
                /\ Len(tool_responses) >= k
          /\ Calls[k].out = "pending" =>
                /\ k = Len(Calls)
                /\ Len(tool_responses) = k - 1

\* C21 witness: the second call of a query is in flight, after the first one
\* faulted and its error line was recorded.
ToolCallsSerializedWitness ==
    /\ pc = "call_tool"
    /\ Len(Calls) = 2
    /\ Calls[1].out = "fault"
    /\ Calls[2].out = "pending"
    /\ Len(tool_responses) = 1

\* C22: every invocation of process_query on a connected client asks
\* list_tools first and once, the model is asked only after list_tools
\* answered, and the function list offered to the model is built from the
\* list this query was served, also where it differs from the list an
\* earlier query was served.
ToolListRefetched ==
    /\ (session # "None" /\ read = "returned" /\ loop # "exited") =>
          /\ Len(log) >= 1
          /\ log[1].op = "list_tools"
    /\ \A k \in 1..Len(log) :
          /\ log[k].op = "list_tools" => k = 1
          /\ IsChat(log[k]) => (k = 2 /\ log[1].op = "list_tools" /\ log[1].out = "ok")
    /\ pc = "chat" =>
          tools = [k \in 1..Len(available_tools) |->
                     [type |-> "function",
                      function |->
                          [name |-> available_tools[k].name.s,
                           description |-> available_tools[k].description.s,
                           parameters |-> available_tools[k].inputSchema.s]]]

\* C22 witness: the second query was served two tools, neither of them the
\* tool the first query was served, and offers these two to the model.
ToolListRefetchedWitness ==
    /\ turns = 2
    /\ pc = "chat"
    /\ Len(available_tools) = 2
    /\ \A k \in 1..2 : available_tools[k] # FirstServed[1]
    /\ available_tools[1] # available_tools[2]
    /\ Len(tools) = 2
    /\ tools[1].function.name = <<"test_tool">>

\* C23: in one invocation of process_query the model is asked at most once,
\* with the query and nothing else, as the second request, after list_tools
\* answered; every call_tool request comes after the answer of the model;
\* and when process_query returns, the model was asked exactly once, however
\* many tool calls there were and however they ended.
OneModelRequest ==
    /\ \A k \in 1..Len(log) :
          /\ IsChat(log[k]) =>
                /\ k = 2
                /\ log[1].op = "list_tools"
                /\ log[1].out = "ok"
                /\ log[k].name = query
                /\ log[k].args = Dict(<<>>)
          /\ IsCallTool(log[k]) =>
                /\ k >= 3
                /\ IsChat(log[2])
                /\ log[2].out = "ok"
    /\ Returned =>
          /\ Len(log) = 2 + Len(tool_calls)
          /\ IsChat(log[2])
          /\ \A k \in 3..Len(log) : IsCallTool(log[k])

\* C23 witness: process_query returned after two tool calls, one returned and
\* one faulted, having asked the model once.
OneModelRequestWitness ==
    /\ Returned
    /\ Len(tool_calls) = 2
    /\ Len(log) = 4
    /\ IsChat(log[2])
    /\ log[3].out = "ok"
    /\ log[4].out = "fault"

\* C25: when the read of a line raises, "\nError: <message>" is printed,
\* process_query is not invoked (nothing is asked of anyone and there is no
\* reply) and chat_loop is awaiting input again; the loop is left only after
\* a read that returned the quit token, so never while every read raises.
InputFaultKeepsLoop ==
    /\ read = "raised" =>
          /\ loop = "awaiting"
          /\ pc = "idle"
          /\ log = <<>>
          /\ response.status = "none"
          /\ printed = <<"\n", "Error: ", "EOF when reading a line">>
    /\ loop = "exited" =>
          /\ read = "returned"
          /\ Lower(query) = <<"q", "u", "i", "t">>

\* C25 witness: the read of the second iteration raised and the loop is
\* awaiting input.
InputFaultWitness ==
    /\ read = "raised"
    /\ turns >= 2
    /\ loop = "awaiting"
    /\ printed = <<"\n", "Error: ">> \o EOFText

\* C24: in main chat_loop runs only after connect_to_server has returned
\* without a fault; cleanup is called at most once, never before the try
\* block was left, and once on each way out of it: after a fault of
\* connect_to_server, after chat_loop returned on quit, and after a fault
\* that left chat_loop.
MainCleansUpOnce ==
    /\ [](/\ (turns > 0 \/ loop # "awaiting" \/ escaped.kind # "none") =>
                (cpc = "connected" /\ connect_error.none)
          /\ cleanups <= 1
          /\ cleanups = 1 =>
                (cpc = "failed" \/ loop = "exited" \/ escaped.kind # "none"))
    /\ (cpc = "failed") ~> (cleanups = 1)
    /\ (loop = "exited") ~> (cleanups = 1)
    /\ (escaped.kind # "none") ~> (cleanups = 1)

\* C24 witness: cleanup was called once after a KeyboardInterrupt left a
\* chat_loop that had served a query.
MainCleansUpWitness ==
    /\ cleanups = 1
    /\ escaped.kind = "BaseException"
    /\ cpc = "connected"
    /\ turns >= 1
    /\ Returned

====
